---- MODULE Spec2Model ----
(***************************************************************************)
(* Model of autotyper/autotype.py: the AutotypeCommand codemod.            *)
(*                                                                         *)
(* The codemod is a libcst visitor.  libcst walks the syntax tree depth    *)
(* first and calls visit_X when it enters a node of type X and leave_X     *)
(* when it leaves it, after all of the node's children have been walked.   *)
(* The model is the state machine of that walk: `stack` is the walk's      *)
(* recursion stack, `state` is self.state of the command, `imports` is     *)
(* the list of imports requested through AddImportsVisitor, and one        *)
(* action stands for each visit_X / leave_X handler.  The tree is not      *)
(* fixed in advance: each action draws the node that the walk meets next   *)
(* from the node kinds the grammar allows at that place, so the            *)
(* behaviours of Spec are the walks of all trees of at most MaxNodes       *)
(* nodes.                                                                  *)
(*                                                                         *)
(* A second command (state2, imports2) walks the OUTPUT of the first one   *)
(* in lockstep: its visit events see the same nodes, its leave events see  *)
(* as original node the node the first command returned.                   *)
(*                                                                         *)
(* `call` is one call of NamedParam.make (its input and what it gave),     *)
(* `ctor` the arguments of AutotypeCommand.__init__ and how far it got.    *)
(* `state` holds self.state of the command that is running, its three      *)
(* lists by value; `heap` holds the list objects, `running` the addresses  *)
(* of the running command's lists, and `parked` a second command that is   *)
(* not running now, with the state it had when it stopped.                 *)
(***************************************************************************)
EXTENDS Integers, Sequences, FiniteSets, TLC

VARIABLES state, imports, state2, imports2, stack, nodes, last, call, ctor, running, heap, parked

vars == <<state, imports, state2, imports2, stack, nodes, last, call, ctor, running, heap, parked>>

(***************************************************************************)
(* Bounds and input sets.                                                  *)
(***************************************************************************)
\* Number of tree nodes (function definitions, lambdas, parameters,
\* return/raise/yield) met by one walk.
MaxNodes == 3

\* Number of tree nodes met by the walks of two interleaved commands, both
\* walks together.
MaxNodesTwo == 2

\* Length of the strings given to NamedParam.make.
MaxLen == 7

\* Python's None (an absent annotation, default or return value).
NoneVal == <<>>

\* libcst.Name(value=v), libcst.Integer and libcst.Lambda as expressions.
Name(v) == <<"Name", v>>
IntegerLit == <<"Integer", "0">>
LambdaExpr == <<"Lambda">>

\* libcst.Annotation(annotation=libcst.Name(value=v))
AnnName(v) == <<"Annotation", "Name", v>>
\* libcst.Annotation(annotation=Subscript(Name("Optional"), [Index(Name(v))]))
AnnOptional(v) == <<"Annotation", "Subscript", "Optional", v>>

\* An annotation the input program already carries.
ExistingAnnotation == AnnName("object")

FuncNames == {"f", "__len__", "__iter__"}
ParamNames == {"x", "y"}
AtomDefaults == {NoneVal, Name("True"), Name("False"), Name("None")}

(***************************************************************************)
(* NamedParam and the configuration part of State.                         *)
(***************************************************************************)
NamedParam(name, module, type_name) ==
    [name |-> name, module |-> module, type_name |-> type_name]

\* Rule lists given to the command.  Two rules of each list name `x`, so
\* that the order of the list decides, after a rule that names another
\* parameter; `y` is named by no rule.
RuleA == NamedParam("x", "m1", "A")
RuleB == NamedParam("x", "m2", "B")
RuleC == NamedParam("z", "m3", "C")
OptionalRuleLists == {<<RuleC, RuleA, RuleB>>}
NamedRuleLists == {<<RuleC, RuleB, RuleA>>}

State(annotate_optionals, annotate_named_params, annotate_magics, annotate_imprecise_magics, none_return, bool_param) ==
    [annotate_optionals |-> annotate_optionals,
     annotate_named_params |-> annotate_named_params,
     annotate_magics |-> annotate_magics,
     annotate_imprecise_magics |-> annotate_imprecise_magics,
     none_return |-> none_return,
     bool_param |-> bool_param,
     seen_return_statement |-> <<FALSE>>,
     seen_raise_statement |-> <<FALSE>>,
     seen_yield |-> <<FALSE>>,
     in_lambda |-> FALSE]

SIMPLE_MAGICS ==
    ("__str__" :> "str") @@ ("__repr__" :> "str") @@ ("__len__" :> "int") @@
    ("__init__" :> "None") @@ ("__del__" :> "None") @@ ("__bool__" :> "bool") @@
    ("__bytes__" :> "bytes") @@ ("__format__" :> "str") @@
    ("__contains__" :> "bool") @@ ("__complex__" :> "complex") @@
    ("__int__" :> "int") @@ ("__float__" :> "float") @@ ("__index__" :> "int")

IMPRECISE_MAGICS ==
    ("__iter__" :> <<"typing", "Iterator">>) @@
    ("__reversed__" :> <<"typing", "Iterator">>) @@
    ("__await__" :> <<"typing", "Iterator">>)

(***************************************************************************)
(* Tree nodes.                                                             *)
(***************************************************************************)
FunctionDefNode(name, returns) ==
    [type |-> "FunctionDef", name |-> name, returns |-> returns]
ParamNode(name, annotation, default) ==
    [type |-> "Param", name |-> name, annotation |-> annotation,
     default |-> default]
ReturnNode(value) == [type |-> "Return", value |-> value]
LambdaNode == [type |-> "Lambda"]
RaiseNode == [type |-> "Raise"]
YieldNode == [type |-> "Yield"]
ModuleNode == [type |-> "Module"]

\* node.with_changes(field=value)
with_changes(node, fld, value) == [node EXCEPT ![fld] = value]

(***************************************************************************)
(* Python list helpers.                                                    *)
(***************************************************************************)
ListLast(l) == l[Len(l)]
ListPop(l) == SubSeq(l, 1, Len(l) - 1)
ListSetLast(l, v) == [l EXCEPT ![Len(l)] = v]

(***************************************************************************)
(* The visit handlers: each maps self.state to the new self.state.         *)
(***************************************************************************)
\* Mutant: the frame is pushed on two of the three lists only.
visit_FunctionDef_two_lists(s, node) ==
    [s EXCEPT !.seen_return_statement = Append(@, FALSE),
              !.seen_raise_statement = Append(@, FALSE)]

visit_FunctionDef(s, node) ==
    [s EXCEPT !.seen_return_statement = Append(@, FALSE),
              !.seen_raise_statement = Append(@, FALSE),
              !.seen_yield = Append(@, FALSE)]

\* Mutant: the flag is set for a bare `return` too.
visit_Return_any(s, node) ==
    [s EXCEPT !.seen_return_statement = ListSetLast(@, TRUE)]

visit_Return(s, node) ==
    IF node.value # NoneVal
    THEN [s EXCEPT !.seen_return_statement = ListSetLast(@, TRUE)]
    ELSE s

\* Mutant: the raise is recorded on every open frame, not on the last one.
visit_Raise_all(s, node) ==
    [s EXCEPT !.seen_raise_statement = [i \in DOMAIN @ |-> TRUE]]

visit_Raise(s, node) ==
    [s EXCEPT !.seen_raise_statement = ListSetLast(@, TRUE)]

visit_Yield(s, node) ==
    [s EXCEPT !.seen_yield = ListSetLast(@, TRUE)]

\* Mutant: a lambda gets a scope frame, as a function definition does.
visit_Lambda_pushes(s, node) ==
    [s EXCEPT !.in_lambda = TRUE,
              !.seen_return_statement = Append(@, FALSE),
              !.seen_raise_statement = Append(@, FALSE),
              !.seen_yield = Append(@, FALSE)]

visit_Lambda(s, node) == [s EXCEPT !.in_lambda = TRUE]

\* A handler's result: the new self.state, the node it returns and the
\* imports it requested, in order.
Result(s, node, reqs) == [state |-> s, node |-> node, imports |-> reqs]

\* Mutant: the flag is not reset when a lambda is left.
leave_Lambda_keeps(s, original_node, updated_node) ==
    Result(s, updated_node, <<>>)

leave_Lambda(s, original_node, updated_node) ==
    Result([s EXCEPT !.in_lambda = FALSE], updated_node, <<>>)

\* Mutant: the return annotation is not looked at.
returns_is_None_always(original_node) == TRUE

\* Line 164: the function has no return annotation.
returns_is_None(original_node) == original_node.returns = NoneVal

\* Mutant: the none_return toggle is not looked at.
none_return_applies_no_toggle(s, seen_return, seen_raise, seen_yield) ==
    ~seen_raise /\ ~seen_return /\ ~seen_yield

\* Lines 165-170: the condition of the `-> None` rule.
none_return_applies(s, seen_return, seen_raise, seen_yield) ==
    s.none_return /\ ~seen_raise /\ ~seen_return /\ ~seen_yield

\* self.state with the three lists popped (lines 161-163).
pop_scope(s) ==
    [s EXCEPT !.seen_return_statement = ListPop(@),
              !.seen_raise_statement = ListPop(@),
              !.seen_yield = ListPop(@)]

\* Mutant: the magic tables are looked up before the `-> None` rule.
leave_FunctionDef_magics_first(s, original_node, updated_node) ==
    LET seen_return == ListLast(s.seen_return_statement)
        seen_raise == ListLast(s.seen_raise_statement)
        seen_yield == ListLast(s.seen_yield)
        name == original_node.name
    IN  IF ~returns_is_None(original_node)
        THEN Result(pop_scope(s), updated_node, <<>>)
        ELSE IF s.annotate_magics /\ name \in DOMAIN SIMPLE_MAGICS
        THEN Result(pop_scope(s),
                    with_changes(updated_node, "returns",
                                 AnnName(SIMPLE_MAGICS[name])),
                    <<>>)
        ELSE IF s.annotate_imprecise_magics /\ name \in DOMAIN IMPRECISE_MAGICS
        THEN Result(pop_scope(s),
                    with_changes(updated_node, "returns",
                                 AnnName(IMPRECISE_MAGICS[name][2])),
                    << IMPRECISE_MAGICS[name] >>)
        ELSE IF none_return_applies(s, seen_return, seen_raise, seen_yield)
        THEN Result(pop_scope(s),
                    with_changes(updated_node, "returns", AnnName("None")),
                    <<>>)
        ELSE Result(pop_scope(s), updated_node, <<>>)

\* Mutant: where no rule applies the node is returned with returns=None,
\* which removes the annotation the function had.
leave_FunctionDef_strips(s, original_node, updated_node) ==
    LET seen_return == ListLast(s.seen_return_statement)
        seen_raise == ListLast(s.seen_raise_statement)
        seen_yield == ListLast(s.seen_yield)
        name == original_node.name
    IN  IF ~returns_is_None(original_node)
        THEN Result(pop_scope(s),
                    with_changes(updated_node, "returns", NoneVal), <<>>)
        ELSE IF none_return_applies(s, seen_return, seen_raise, seen_yield)
        THEN Result(pop_scope(s),
                    with_changes(updated_node, "returns", AnnName("None")),
                    <<>>)
        ELSE IF s.annotate_magics /\ name \in DOMAIN SIMPLE_MAGICS
        THEN Result(pop_scope(s),
                    with_changes(updated_node, "returns",
                                 AnnName(SIMPLE_MAGICS[name])),
                    <<>>)
        ELSE IF s.annotate_imprecise_magics /\ name \in DOMAIN IMPRECISE_MAGICS
        THEN Result(pop_scope(s),
                    with_changes(updated_node, "returns",
                                 AnnName(IMPRECISE_MAGICS[name][2])),
                    << IMPRECISE_MAGICS[name] >>)
        ELSE Result(pop_scope(s),
                    with_changes(updated_node, "returns", NoneVal), <<>>)

\* Mutant: the imprecise-magic rule annotates without asking for the import.
leave_FunctionDef_no_import(s, original_node, updated_node) ==
    LET seen_return == ListLast(s.seen_return_statement)
        seen_raise == ListLast(s.seen_raise_statement)
        seen_yield == ListLast(s.seen_yield)
        name == original_node.name
    IN  IF ~returns_is_None(original_node)
        THEN Result(pop_scope(s), updated_node, <<>>)
        ELSE IF none_return_applies(s, seen_return, seen_raise, seen_yield)
        THEN Result(pop_scope(s),
                    with_changes(updated_node, "returns", AnnName("None")),
                    <<>>)
        ELSE IF s.annotate_magics /\ name \in DOMAIN SIMPLE_MAGICS
        THEN Result(pop_scope(s),
                    with_changes(updated_node, "returns",
                                 AnnName(SIMPLE_MAGICS[name])),
                    <<>>)
        ELSE IF s.annotate_imprecise_magics /\ name \in DOMAIN IMPRECISE_MAGICS
        THEN Result(pop_scope(s),
                    with_changes(updated_node, "returns",
                                 AnnName(IMPRECISE_MAGICS[name][2])),
                    <<>>)
        ELSE Result(pop_scope(s), updated_node, <<>>)

leave_FunctionDef(s, original_node, updated_node) ==
    LET seen_return == ListLast(s.seen_return_statement)
        seen_raise == ListLast(s.seen_raise_statement)
        seen_yield == ListLast(s.seen_yield)
        popped == pop_scope(s)
        name == original_node.name
    IN  IF returns_is_None(original_node)
        THEN IF none_return_applies(s, seen_return, seen_raise, seen_yield)
             THEN Result(popped,
                         with_changes(updated_node, "returns", AnnName("None")),
                         <<>>)
             ELSE IF s.annotate_magics /\ name \in DOMAIN SIMPLE_MAGICS
             THEN Result(popped,
                         with_changes(updated_node, "returns",
                                      AnnName(SIMPLE_MAGICS[name])),
                         <<>>)
             ELSE IF s.annotate_imprecise_magics
                     /\ name \in DOMAIN IMPRECISE_MAGICS
             THEN LET module == IMPRECISE_MAGICS[name][1]
                      imported_name == IMPRECISE_MAGICS[name][2]
                  IN  Result(popped,
                             with_changes(updated_node, "returns",
                                          AnnName(imported_name)),
                             << <<module, imported_name>> >>)
             ELSE Result(popped, updated_node, <<>>)
        ELSE Result(popped, updated_node, <<>>)

\* Mutant: only the literal True is taken for a boolean default.
is_bool_default_true_only(s, original_node) ==
    /\ s.bool_param
    /\ original_node.default # NoneVal
    /\ original_node.default[1] = "Name"
    /\ original_node.default[2] = "True"

\* Lines 203-208: the default is the literal True or False and bool_param is on.
is_bool_default(s, original_node) ==
    /\ s.bool_param
    /\ original_node.default # NoneVal
    /\ original_node.default[1] = "Name"
    /\ original_node.default[2] \in {"True", "False"}

\* Lines 212-216.
default_is_none(original_node) ==
    /\ original_node.default # NoneVal
    /\ original_node.default[1] = "Name"
    /\ original_node.default[2] = "None"

\* Mutant: `else` in place of `elif original_node.default is None`.
default_is_absent_any(original_node) == TRUE

\* Line 223: the parameter has no default at all.
default_is_absent(original_node) == original_node.default = NoneVal

\* Mutant: the loop does not return at the first hit, the last hit stands.
first_match_last(rules, name) ==
    LET hits == {i \in 1..Len(rules) : rules[i].name = name}
    IN  IF hits = {} THEN 0
        ELSE CHOOSE i \in hits : \A j \in hits : i >= j

\* Lines 218-219 and 224-225: the loop over the rules returns at the first
\* rule whose name is the parameter's.  0 when the loop ends without one.
first_match(rules, name) ==
    LET hits == {i \in 1..Len(rules) : rules[i].name = name}
    IN  IF hits = {} THEN 0
        ELSE CHOOSE i \in hits : \A j \in hits : i <= j

_annotate_param(s, param, updated_node, optional) ==
    LET reqs == << <<param.module, param.type_name>> >>
                \o (IF optional THEN << <<"typing", "Optional">> >> ELSE <<>>)
        anno == IF optional THEN AnnOptional(param.type_name)
                ELSE AnnName(param.type_name)
    IN  Result(s, with_changes(updated_node, "annotation", anno), reqs)

\* Mutant: a parameter that has an annotation is not passed over.
leave_Param_no_guard(s, original_node, updated_node) ==
    IF s.in_lambda
    THEN Result(s, updated_node, <<>>)
    ELSE IF is_bool_default(s, original_node)
    THEN Result(s, with_changes(updated_node, "annotation", AnnName("bool")),
                <<>>)
    ELSE IF default_is_none(original_node)
    THEN LET i == first_match(s.annotate_optionals, original_node.name)
         IN  IF i # 0
             THEN _annotate_param(s, s.annotate_optionals[i], updated_node, TRUE)
             ELSE Result(s, updated_node, <<>>)
    ELSE IF default_is_absent(original_node)
    THEN LET i == first_match(s.annotate_named_params, original_node.name)
         IN  IF i # 0
             THEN _annotate_param(s, s.annotate_named_params[i], updated_node,
                                  FALSE)
             ELSE Result(s, updated_node, <<>>)
    ELSE Result(s, updated_node, <<>>)

leave_Param(s, original_node, updated_node) ==
    IF s.in_lambda
    THEN Result(s, updated_node, <<>>)
    ELSE IF original_node.annotation # NoneVal
    THEN Result(s, updated_node, <<>>)
    ELSE IF is_bool_default(s, original_node)
    THEN Result(s, with_changes(updated_node, "annotation", AnnName("bool")),
                <<>>)
    ELSE IF default_is_none(original_node)
    THEN LET i == first_match(s.annotate_optionals, original_node.name)
         IN  IF i # 0
             THEN _annotate_param(s, s.annotate_optionals[i], updated_node, TRUE)
             ELSE Result(s, updated_node, <<>>)
    ELSE IF default_is_absent(original_node)
    THEN LET i == first_match(s.annotate_named_params, original_node.name)
         IN  IF i # 0
             THEN _annotate_param(s, s.annotate_named_params[i], updated_node,
                                  FALSE)
             ELSE Result(s, updated_node, <<>>)
    ELSE Result(s, updated_node, <<>>)

(***************************************************************************)
(* The walk.  A frame of `stack` is a node the walk has entered and not    *)
(* left: `node` is the node as it is in the input (original_node) and     *)
(* `phase` is the part of the node the walk is in (its parameters come     *)
(* before its body).  A node is held by its own fields only, so the        *)
(* updated_node a leave handler is given is the original node.             *)
(* own_return, own_raise, own_yield and own_bare are not program state:    *)
(* they note, for the frame of a function (or of the module), whether a    *)
(* return with a value, a raise, a yield or a bare return was met inside   *)
(* it and outside every function definition nested in it.                  *)
(***************************************************************************)
Frame(kind, phase, node) ==
    [kind |-> kind, phase |-> phase, node |-> node,
     own_return |-> FALSE, own_raise |-> FALSE, own_yield |-> FALSE,
     own_bare |-> FALSE, annotated_param |-> FALSE]

Top == stack[Len(stack)]
Below == SubSeq(stack, 1, Len(stack) - 1)

\* Index of the frame of the innermost enclosing function (1: the module).
ScopeIdx ==
    CHOOSE i \in 1..Len(stack) :
        /\ stack[i].kind \in {"Module", "FunctionDef"}
        /\ \A j \in (i + 1)..Len(stack) :
               stack[j].kind \notin {"Module", "FunctionDef"}

\* Number of lambdas the walk is inside of.
LambdaDepth == Cardinality({i \in 1..Len(stack) : stack[i].kind = "Lambda"})
\* Number of function definitions the walk is inside of.
FunctionDepth ==
    Cardinality({i \in 1..Len(stack) : stack[i].kind = "FunctionDef"})

\* Where the grammar allows a statement, an expression, a parameter.
StmtPos == Top.kind \in {"Module", "FunctionDef"}
ExprPos == StmtPos \/ Top.kind = "Lambda"
ParamPos == Top.kind \in {"FunctionDef", "Lambda"} /\ Top.phase = "params"

\* The walk has gone past the parameters of the node on top, into its body.
Advance(stk) == [stk EXCEPT ![Len(stk)].phase = "body"]

\* What the last step of the walk was: the handler, the node it was given,
\* the nodes the two commands returned, the imports the first command
\* requested in it, the kind of the node's parent, the number of lambdas
\* around the node, and (leave_FunctionDef) what the function contained.
Event(ev, original, updated1, updated2, reqs, owner, lambdas, frame) ==
    [event |-> ev, original |-> original, updated |-> updated1,
     updated2 |-> updated2, imports |-> reqs, owner |-> owner,
     lambdas |-> lambdas,
     own_return |-> frame.own_return, own_raise |-> frame.own_raise,
     own_yield |-> frame.own_yield, own_bare |-> frame.own_bare]

\* AddImportsVisitor.add_needed_import, once for each request of `reqs`: each
\* call appends its (module, name) to the list the context holds, whether
\* the list has it already or not.
add_needed_imports(have, reqs) == have \o reqs

(***************************************************************************)
(* Rule strings and construction.  A string is a sequence of characters.   *)
(***************************************************************************)
\* What a call gave: the value it returned or the exception it raised.
Returned(value) == [raised |-> FALSE, value |-> value]
Raised(error) == [raised |-> TRUE, error |-> error]
NotCalled == [raised |-> FALSE]

\* The Python string of a sequence of characters.
RECURSIVE Join(_)
Join(chars) == IF chars = <<>> THEN "" ELSE Head(chars) \o Join(Tail(chars))

\* str.find and str.rfind: the first and the last place of `sep` in `chars`,
\* counted from 1, 0 if there is none.
find(chars, sep) ==
    IF \E i \in 1..Len(chars) : chars[i] = sep
    THEN CHOOSE i \in 1..Len(chars) :
            chars[i] = sep /\ \A j \in 1..(i - 1) : chars[j] # sep
    ELSE 0
rfind(chars, sep) ==
    IF \E i \in 1..Len(chars) : chars[i] = sep
    THEN CHOOSE i \in 1..Len(chars) :
            chars[i] = sep /\ \A j \in (i + 1)..Len(chars) : chars[j] # sep
    ELSE 0

\* str.split(sep): the pieces between all the occurrences of `sep`.
RECURSIVE split(_, _)
split(chars, sep) ==
    LET i == find(chars, sep)
    IN  IF i = 0
        THEN <<chars>>
        ELSE <<SubSeq(chars, 1, i - 1)>>
                 \o split(SubSeq(chars, i + 1, Len(chars)), sep)

\* str.rsplit(sep, maxsplit=1): cut at the last occurrence of `sep`.
rsplit(chars, sep) ==
    LET i == rfind(chars, sep)
    IN  IF i = 0
        THEN <<chars>>
        ELSE <<SubSeq(chars, 1, i - 1), SubSeq(chars, i + 1, Len(chars))>>

\* Mutant: the type path is cut at its first dot.
make_first_dot(input) ==
    LET parts == split(input, ":")
    IN  IF Len(parts) # 2
        THEN Raised("ValueError")
        ELSE LET i == find(parts[2], ".")
             IN  IF i = 0
                 THEN Raised("ValueError")
                 ELSE Returned(NamedParam(
                          Join(parts[1]),
                          Join(SubSeq(parts[2], 1, i - 1)),
                          Join(SubSeq(parts[2], i + 1, Len(parts[2])))))

\* Mutant: a type path without a dot is taken as a type name of no module.
make_no_dot_ok(input) ==
    LET parts == split(input, ":")
    IN  IF Len(parts) # 2
        THEN Raised("ValueError")
        ELSE LET path == rsplit(parts[2], ".")
             IN  IF Len(path) # 2
                 THEN Returned(NamedParam(Join(parts[1]), "", Join(path[1])))
                 ELSE Returned(NamedParam(Join(parts[1]), Join(path[1]),
                                          Join(path[2])))

\* NamedParam.make: unpacking into two names raises ValueError unless the
\* split gave exactly two pieces.
make(input) ==
    LET parts == split(input, ":")
    IN  IF Len(parts) # 2
        THEN Raised("ValueError")
        ELSE LET path == rsplit(parts[2], ".")
             IN  IF Len(path) # 2
                 THEN Raised("ValueError")
                 ELSE Returned(NamedParam(Join(parts[1]), Join(path[1]),
                                          Join(path[2])))

\* AutotypeCommand.__init__: the rules of annotate_optional are made first,
\* then those of annotate_named_param (None and the empty list give no
\* rule); an exception of make leaves __init__ before self.state is set.
__init__(annotate_optional, annotate_named_param, annotate_magics, annotate_imprecise_magics, none_return, bool_param) ==
    LET optionals == [k \in DOMAIN annotate_optional |->
                         make(annotate_optional[k])]
        named == [k \in DOMAIN annotate_named_param |->
                     make(annotate_named_param[k])]
    IN  IF \E k \in DOMAIN optionals : optionals[k].raised
        THEN Raised("ValueError")
        ELSE IF \E k \in DOMAIN named : named[k].raised
        THEN Raised("ValueError")
        ELSE Returned(State([k \in DOMAIN optionals |-> optionals[k].value],
                            [k \in DOMAIN named |-> named[k].value],
                            annotate_magics, annotate_imprecise_magics,
                            none_return, bool_param))

\* The arguments of __init__ and where the construction is: "new" before
\* the call, "ready" once it has returned, "raised" if it raised.
Arguments(pc, annotate_optional, annotate_named_param, toggle) ==
    [pc |-> pc,
     annotate_optional |-> annotate_optional,
     annotate_named_param |-> annotate_named_param,
     annotate_magics |-> toggle, annotate_imprecise_magics |-> toggle,
     none_return |-> toggle, bool_param |-> toggle]

\* The handlers are methods of a command whose __init__ has returned.
Constructed == ctor.pc = "ready"

(***************************************************************************)
(* The list objects of the commands.                                       *)
(***************************************************************************)
\* Mutant: the factory gives the same list object each time.
default_factory_shared(h) == 1

\* field(default_factory=lambda: [False]): the address of the list the
\* factory returns, a new object each time it is called.
default_factory(h) == Len(h) + 1

\* The heap once the object at address `a` exists.
alloc(h, a) == IF a > Len(h) THEN Append(h, <<FALSE>>) ELSE h

\* State(...) of command `id`: the addresses of its three lists, and the
\* heap with them.
new_State(id, h) ==
    LET a1 == default_factory(h)
        h1 == alloc(h, a1)
        a2 == default_factory(h1)
        h2 == alloc(h1, a2)
        a3 == default_factory(h2)
        h3 == alloc(h2, a3)
    IN  [self |-> [id |-> id, seen_return_statement |-> a1,
                   seen_raise_statement |-> a2, seen_yield |-> a3],
         heap |-> h3]

\* The heap once the lists of `s` are written at the addresses of `self`,
\* and `s` with the lists read from there.
Store(h, self, s) ==
    LET h1 == [h EXCEPT ![self.seen_return_statement] = s.seen_return_statement]
        h2 == [h1 EXCEPT ![self.seen_raise_statement] = s.seen_raise_statement]
    IN  [h2 EXCEPT ![self.seen_yield] = s.seen_yield]
Load(h, self, s) ==
    [s EXCEPT !.seen_return_statement = h[self.seen_return_statement],
              !.seen_raise_statement = h[self.seen_raise_statement],
              !.seen_yield = h[self.seen_yield]]

\* The walk that is running meets at most this many nodes.
NodeBudget ==
    IF parked = <<>> THEN MaxNodes ELSE MaxNodesTwo - parked[1].nodes

\* The rule strings of RuleA, RuleB and RuleC.
StringA == <<"x", ":", "m", "1", ".", "A">>
StringB == <<"x", ":", "m", "2", ".", "B">>
StringC == <<"z", ":", "m", "3", ".", "C">>

Configurations ==
    {State(o, n, m, i, r, b) :
        o \in OptionalRuleLists, n \in NamedRuleLists,
        m \in BOOLEAN, i \in BOOLEAN, r \in BOOLEAN, b \in BOOLEAN}

Init ==
    /\ state \in Configurations
    /\ state2 = state
    /\ imports = <<>>
    /\ imports2 = <<>>
    /\ stack = <<Frame("Module", "body", ModuleNode)>>
    /\ nodes = 0
    /\ last = Event("init", ModuleNode, ModuleNode, ModuleNode, <<>>, "none", 0,
                    Frame("Module", "body", ModuleNode))
    /\ call = [input |-> <<>>, result |-> NotCalled]
    /\ ctor = [Arguments("ready", <<StringC, StringA, StringB>>,
                         <<StringC, StringB, StringA>>, FALSE)
                  EXCEPT !.annotate_magics = state.annotate_magics,
                         !.annotate_imprecise_magics =
                             state.annotate_imprecise_magics,
                         !.none_return = state.none_return,
                         !.bool_param = state.bool_param]
    /\ running = new_State(1, <<>>).self
    /\ heap = new_State(1, <<>>).heap
    /\ parked = <<>>

VisitFunctionDef ==
    /\ Constructed
    /\ nodes < NodeBudget
    /\ StmtPos
    /\ \E name \in FuncNames, returns \in {NoneVal, ExistingAnnotation} :
          LET node == FunctionDefNode(name, returns)
          IN  /\ state' = visit_FunctionDef(state, node)
              /\ state2' = visit_FunctionDef(state2, node)
              /\ stack' = Append(Advance(stack),
                                 Frame("FunctionDef", "params", node))
              /\ last' = Event("visit_FunctionDef", node, node, node, <<>>,
                               Top.kind, LambdaDepth, Top)
    /\ nodes' = nodes + 1
    /\ UNCHANGED <<imports, imports2, call, ctor, running, heap, parked>>

VisitReturn ==
    /\ Constructed
    /\ nodes < NodeBudget
    /\ StmtPos
    /\ \E value \in {NoneVal, IntegerLit} :
          LET node == ReturnNode(value)
          IN  /\ state' = visit_Return(state, node)
              /\ state2' = visit_Return(state2, node)
              /\ stack' = [Advance(stack) EXCEPT
                               ![ScopeIdx].own_return = @ \/ value # NoneVal,
                               ![ScopeIdx].own_bare = @ \/ value = NoneVal]
              /\ last' = Event("visit_Return", node, node, node, <<>>,
                               Top.kind, LambdaDepth, Top)
    /\ nodes' = nodes + 1
    /\ UNCHANGED <<imports, imports2, call, ctor, running, heap, parked>>

VisitRaise ==
    /\ Constructed
    /\ nodes < NodeBudget
    /\ StmtPos
    /\ state' = visit_Raise(state, RaiseNode)
    /\ state2' = visit_Raise(state2, RaiseNode)
    /\ stack' = [Advance(stack) EXCEPT ![ScopeIdx].own_raise = TRUE]
    /\ last' = Event("visit_Raise", RaiseNode, RaiseNode, RaiseNode, <<>>,
                     Top.kind, LambdaDepth, Top)
    /\ nodes' = nodes + 1
    /\ UNCHANGED <<imports, imports2, call, ctor, running, heap, parked>>

VisitYield ==
    /\ Constructed
    /\ nodes < NodeBudget
    /\ ExprPos
    /\ state' = visit_Yield(state, YieldNode)
    /\ state2' = visit_Yield(state2, YieldNode)
    /\ stack' = [Advance(stack) EXCEPT ![ScopeIdx].own_yield = TRUE]
    /\ last' = Event("visit_Yield", YieldNode, YieldNode, YieldNode, <<>>,
                     Top.kind, LambdaDepth, Top)
    /\ nodes' = nodes + 1
    /\ UNCHANGED <<imports, imports2, call, ctor, running, heap, parked>>

\* A lambda is met as an expression of a statement or of a lambda's body,
\* or as the default of a parameter: the walk then enters the parameter (no
\* handler runs for that) and walks its default before it calls leave_Param.
VisitLambda ==
    /\ Constructed
    /\ nodes < NodeBudget
    /\ LET node == LambdaNode
       IN  /\ state' = visit_Lambda(state, node)
           /\ state2' = visit_Lambda(state2, node)
           /\ last' = Event("visit_Lambda", node, node, node, <<>>,
                            Top.kind, LambdaDepth, Top)
           /\ \/ /\ ExprPos
                 /\ stack' = Append(Advance(stack),
                                    Frame("Lambda", "params", node))
              \/ /\ ParamPos
                 /\ \E name \in ParamNames,
                       annotation \in (IF Top.kind = "Lambda" THEN {NoneVal}
                                       ELSE {NoneVal, ExistingAnnotation}) :
                       stack' = stack \o
                           <<Frame("Param", "default",
                                   ParamNode(name, annotation, LambdaExpr)),
                             Frame("Lambda", "params", node)>>
    /\ nodes' = nodes + 1
    /\ UNCHANGED <<imports, imports2, call, ctor, running, heap, parked>>

\* The walk comes to the end of a lambda.  libcst builds the lambda anew
\* from the children the handlers returned and then calls leave_Lambda; if
\* leave_Param returned a parameter of this lambda with an annotation, the
\* building raises CSTValidationError ("Lambda params cannot have type
\* annotations"): leave_Lambda is not called for this lambda and the walk
\* ends there, no handler being called any more and nothing being output.
LeaveLambda ==
    /\ Constructed
    /\ Top.kind = "Lambda"
    /\ IF Top.annotated_param
       THEN /\ stack' = Append(stack, Frame("CSTValidationError", "raised",
                                            Top.node))
            /\ last' = Event("CSTValidationError", Top.node, Top.node,
                             Top.node, <<>>, Below[Len(Below)].kind,
                             LambdaDepth, Top)
            /\ UNCHANGED <<state, state2, imports, imports2>>
       ELSE LET original_node == Top.node
                r1 == leave_Lambda(state, original_node, original_node)
                r2 == leave_Lambda(state2, r1.node, r1.node)
            IN  /\ state' = r1.state
                /\ state2' = r2.state
                /\ imports' = add_needed_imports(imports, r1.imports)
                /\ imports2' = add_needed_imports(imports2, r2.imports)
                /\ stack' = Below
                /\ last' = Event("leave_Lambda", original_node, r1.node,
                                 r2.node, r1.imports, Below[Len(Below)].kind,
                                 LambdaDepth - 1, Top)
    /\ UNCHANGED <<nodes, call, ctor, running, heap, parked>>

\* leave_Param for the parameter `original_node` of the node in frame
\* `parent`, the walk's stack being `stk` once the parameter is left.  The
\* frame of a lambda remembers that one of its parameters came back with an
\* annotation.
LeaveParamOf(original_node, stk) ==
    LET r1 == leave_Param(state, original_node, original_node)
        r2 == leave_Param(state2, r1.node, r1.node)
        parent == stk[Len(stk)]
    IN  /\ state' = r1.state
        /\ state2' = r2.state
        /\ imports' = add_needed_imports(imports, r1.imports)
        /\ imports2' = add_needed_imports(imports2, r2.imports)
        /\ stack' = [stk EXCEPT ![Len(stk)].annotated_param =
                         @ \/ (parent.kind = "Lambda"
                                 /\ r1.node.annotation # NoneVal)]
        /\ last' = Event("leave_Param", original_node, r1.node, r2.node,
                         r1.imports, parent.kind,
                         Cardinality({i \in 1..Len(stk) :
                                         stk[i].kind = "Lambda"}),
                         parent)

LeaveParam ==
    \/ /\ Constructed
       /\ nodes < NodeBudget
       /\ ParamPos
       /\ \E name \in ParamNames, default \in AtomDefaults,
             annotation \in (IF Top.kind = "Lambda" THEN {NoneVal}
                             ELSE {NoneVal, ExistingAnnotation}) :
             LeaveParamOf(ParamNode(name, annotation, default), stack)
       /\ nodes' = nodes + 1
       /\ UNCHANGED <<call, ctor, running, heap, parked>>
    \/ /\ Constructed
       /\ Top.kind = "Param"
       /\ LeaveParamOf(Top.node, Below)
       /\ UNCHANGED <<nodes, call, ctor, running, heap, parked>>

LeaveFunctionDef ==
    /\ Constructed
    /\ Top.kind = "FunctionDef"
    /\ LET original_node == Top.node
           r1 == leave_FunctionDef(state, original_node, original_node)
           r2 == leave_FunctionDef(state2, r1.node, r1.node)
       IN  /\ state' = r1.state
           /\ state2' = r2.state
           /\ imports' = add_needed_imports(imports, r1.imports)
           /\ imports2' = add_needed_imports(imports2, r2.imports)
           /\ stack' = Below
           /\ last' = Event("leave_FunctionDef", original_node, r1.node,
                            r2.node, r1.imports, Below[Len(Below)].kind,
                            LambdaDepth, Top)
    /\ UNCHANGED <<nodes, call, ctor, running, heap, parked>>

Next ==
    \/ VisitFunctionDef
    \/ VisitReturn
    \/ VisitRaise
    \/ VisitYield
    \/ VisitLambda
    \/ LeaveLambda
    \/ LeaveParam
    \/ LeaveFunctionDef

Spec == Init /\ [][Next]_vars

(***************************************************************************)
(* NamedParam.make on its own: one call on each string of at most MaxLen   *)
(* characters.                                                             *)
(***************************************************************************)
\* An attribute that has not been assigned: no command exists.
Unset == [unset |-> TRUE]

\* No command has been constructed and no walk has begun.
Idle ==
    /\ state = Unset
    /\ state2 = Unset
    /\ imports = <<>>
    /\ imports2 = <<>>
    /\ stack = <<Frame("Module", "body", ModuleNode)>>
    /\ nodes = 0
    /\ last = Event("init", ModuleNode, ModuleNode, ModuleNode, <<>>, "none", 0,
                    Frame("Module", "body", ModuleNode))
    /\ running = Unset
    /\ heap = <<>>
    /\ parked = <<>>

Alphabet == {"a", "b", ":", "."}
Inputs == UNION {[1..n -> Alphabet] : n \in 0..MaxLen}

InitMake ==
    /\ call \in {[input |-> s, result |-> NotCalled] : s \in Inputs}
    /\ ctor = Arguments("new", <<>>, <<>>, FALSE)
    /\ Idle

Make ==
    /\ call.result = NotCalled
    /\ call' = [call EXCEPT !.result = make(call.input)]
    /\ UNCHANGED <<state, imports, state2, imports2, stack, nodes, last, ctor, running, heap, parked>>

NextMake == Make

SpecMake == InitMake /\ [][NextMake]_vars

(***************************************************************************)
(* Construction from rule strings, then the walk.                          *)
(***************************************************************************)
\* Rule strings make rejects: "xm1.A", "x:m1A" and "x.m:A".
BadNoColon == <<"x", "m", "1", ".", "A">>
BadNoDot == <<"x", ":", "m", "1", "A">>
BadDotBeforeColon == <<"x", ".", "m", ":", "A">>

OptionalArguments ==
    {<<>>, <<StringA>>, <<BadNoColon>>, <<StringA, BadNoDot>>,
     <<BadDotBeforeColon, StringA>>, <<StringC, StringA, BadNoColon>>}
NamedArguments ==
    {<<>>, <<StringB>>, <<BadNoDot>>, <<StringB, BadNoColon>>,
     <<BadDotBeforeColon, StringB>>, <<StringC, StringB, BadNoDot>>}

InitCtor ==
    /\ ctor \in {Arguments("new", o, n, TRUE) :
                    o \in OptionalArguments, n \in NamedArguments}
    /\ call = [input |-> <<>>, result |-> NotCalled]
    /\ Idle

\* AutotypeCommand(context, ...): __init__ runs to its end or raises.
Construct ==
    /\ ctor.pc = "new"
    /\ LET r == __init__(ctor.annotate_optional, ctor.annotate_named_param,
                         ctor.annotate_magics, ctor.annotate_imprecise_magics,
                         ctor.none_return, ctor.bool_param)
       IN  IF r.raised
           THEN /\ ctor' = [ctor EXCEPT !.pc = "raised"]
                /\ UNCHANGED <<state, state2, running, heap>>
           ELSE /\ ctor' = [ctor EXCEPT !.pc = "ready"]
                /\ state' = r.value
                /\ state2' = r.value
                /\ running' = new_State(1, heap).self
                /\ heap' = new_State(1, heap).heap
    /\ UNCHANGED <<imports, imports2, stack, nodes, last, call, parked>>

NextCtor ==
    \/ Construct
    \/ VisitFunctionDef
    \/ VisitReturn
    \/ VisitRaise
    \/ VisitYield
    \/ VisitLambda
    \/ LeaveLambda
    \/ LeaveParam
    \/ LeaveFunctionDef

SpecCtor == InitCtor /\ [][NextCtor]_vars

(***************************************************************************)
(* Two commands, each walking its own tree, their events interleaved.      *)
(***************************************************************************)
\* A command that is not running: the addresses of its lists and what its
\* state, its walk and its requests were when it stopped.
Parked(self, s, s2, imp, imp2, stk, n, l) ==
    [running |-> self, state |-> s, state2 |-> s2, imports |-> imp,
     imports2 |-> imp2, stack |-> stk, nodes |-> n, last |-> l]

TwoConfigurations ==
    {c \in Configurations :
        c.annotate_magics /\ c.annotate_imprecise_magics /\ c.none_return
          /\ c.bool_param}

InitTwo ==
    LET first == new_State(1, <<>>)
        second == new_State(2, first.heap)
        begin == Event("init", ModuleNode, ModuleNode, ModuleNode, <<>>,
                       "none", 0, Frame("Module", "body", ModuleNode))
    IN  /\ state \in TwoConfigurations
        /\ state2 = state
        /\ imports = <<>>
        /\ imports2 = <<>>
        /\ stack = <<Frame("Module", "body", ModuleNode)>>
        /\ nodes = 0
        /\ last = begin
        /\ call = [input |-> <<>>, result |-> NotCalled]
        /\ ctor = Arguments("ready", <<StringC, StringA, StringB>>,
                            <<StringC, StringB, StringA>>, TRUE)
        /\ running = first.self
        /\ heap = second.heap
        /\ parked = <<Parked(second.self, state, state, <<>>, <<>>,
                             <<Frame("Module", "body", ModuleNode)>>, 0,
                             begin)>>

\* The command that is running stops between two events and the other one
\* goes on: the lists of the first are in the heap at their addresses, the
\* second finds at its addresses what the heap holds there.
Switch ==
    /\ Constructed
    /\ parked # <<>>
    /\ LET other == parked[1]
           h == Store(heap, running, state)
       IN  /\ heap' = h
           /\ running' = other.running
           /\ state' = Load(h, other.running, other.state)
           /\ state2' = other.state2
           /\ imports' = other.imports
           /\ imports2' = other.imports2
           /\ stack' = other.stack
           /\ nodes' = other.nodes
           /\ last' = other.last
           /\ parked' = <<Parked(running, state, state2, imports, imports2,
                                 stack, nodes, last)>>
    /\ UNCHANGED <<call, ctor>>

NextTwo ==
    \/ Switch
    \/ VisitFunctionDef
    \/ VisitReturn
    \/ VisitRaise
    \/ VisitYield
    \/ VisitLambda
    \/ LeaveLambda
    \/ LeaveParam
    \/ LeaveFunctionDef

SpecTwo == InitTwo /\ [][NextTwo]_vars

(***************************************************************************)
(* Properties.  They are stated on `last`, the step the walk has just      *)
(* taken, so each one is a statement about every call of a handler in      *)
(* every walk.                                                             *)
(***************************************************************************)
LeftParam == last.event = "leave_Param"
LeftFunctionDef == last.event = "leave_FunctionDef"
\* The parameter just left is a parameter of a lambda / of a function.
OfLambda == last.owner = "Lambda"
OfFunction == last.owner = "FunctionDef"
\* The function just left contained, outside the function definitions
\* nested in it, no raise, no yield and no return with a value.
PlainBody == ~last.own_return /\ ~last.own_raise /\ ~last.own_yield
Unchanged == last.updated = last.original /\ last.imports = <<>>

\* The three rules of the return-type policy, as the specification states
\* them, for the function just left.
RuleNone == state.none_return /\ PlainBody
RuleSimple == state.annotate_magics /\ last.original.name \in DOMAIN SIMPLE_MAGICS
RuleImprecise ==
    state.annotate_imprecise_magics
    /\ last.original.name \in DOMAIN IMPRECISE_MAGICS

\* C1: a parameter of a lambda is returned by leave_Param without an
\* annotation and no import is requested for it, whatever the configuration
\* and wherever the lambda is.
C1_LambdaParamNeverAnnotated ==
    (LeftParam /\ OfLambda) =>
        (last.updated.annotation = NoneVal /\ last.imports = <<>>)

\* What follows C1's failure: the walk has ended with CSTValidationError
\* at the end of a lambda one of whose parameters came back annotated.
C1_EndsInValidationError ==
    /\ last.event = "CSTValidationError"
    /\ Top.kind = "CSTValidationError"
    /\ imports # <<>>
    /\ ~state.in_lambda

\* C2: with none_return on, a function without a return annotation whose
\* own scope holds no raise, no yield and no return with a value leaves the
\* walk annotated `-> None`.
C2_NoneReturn ==
    (LeftFunctionDef /\ state.none_return
        /\ last.original.returns = NoneVal /\ PlainBody) =>
        last.updated.returns = AnnName("None")

\* C2 witness: such a function, here one that holds a bare `return`, is
\* named as a magic method and is walked with the magic toggles on, has been
\* left with `-> None`.
C2_Witness ==
    /\ LeftFunctionDef /\ state.none_return /\ PlainBody
    /\ last.own_bare
    /\ last.original.returns = NoneVal
    /\ last.original.name = "__iter__"
    /\ state.annotate_imprecise_magics
    /\ last.updated.returns = AnnName("None")

\* C3: for a function without a return annotation the rules are tried in the
\* order (a) `-> None`, (b) simple magic, (c) imprecise magic; the first that
\* applies decides, and the function is returned unchanged when none does.
C3_StrictPriority ==
    (LeftFunctionDef /\ last.original.returns = NoneVal) =>
        IF RuleNone
        THEN last.updated.returns = AnnName("None")
        ELSE IF RuleSimple
        THEN last.updated.returns = AnnName(SIMPLE_MAGICS[last.original.name])
        ELSE IF RuleImprecise
        THEN last.updated.returns =
                 AnnName(IMPRECISE_MAGICS[last.original.name][2])
        ELSE Unchanged

\* C3 witness: rule (a) has decided for a function whose name is in the
\* simple-magic table while annotate_magics is on.
C3_Witness ==
    /\ LeftFunctionDef /\ last.original.returns = NoneVal
    /\ RuleNone /\ RuleSimple
    /\ last.updated.returns = AnnName("None")

\* C4: a function that has a return annotation is returned as it was, no
\* import is requested, and its scope frame is popped all the same.
C4_AnnotatedFunctionUntouched ==
    (LeftFunctionDef /\ last.original.returns # NoneVal) =>
        /\ Unchanged
        /\ Len(state.seen_return_statement) = FunctionDepth + 1
        /\ Len(state.seen_raise_statement) = FunctionDepth + 1
        /\ Len(state.seen_yield) = FunctionDepth + 1

\* C4 witness: an annotated function that every rule would otherwise match
\* has been left.
C4_Witness ==
    /\ LeftFunctionDef /\ last.original.returns = ExistingAnnotation
    /\ RuleNone /\ state.annotate_magics /\ state.annotate_imprecise_magics
    /\ last.original.name = "__len__"
    /\ last.updated.returns = ExistingAnnotation

\* C5: a second walk, over the output of the first and with a fresh command
\* of the same configuration, returns every node as the first walk returned
\* it.
C5_Idempotent ==
    (last.event \in {"leave_Param", "leave_FunctionDef", "leave_Lambda"}) =>
        last.updated2 = last.updated

\* C5 witness: a node the first walk annotated has come out of the second
\* walk the same.
C5_Witness ==
    /\ last.event \in {"leave_Param", "leave_FunctionDef"}
    /\ last.updated # last.original
    /\ last.updated2 = last.updated

\* C6: with bool_param on, an unannotated parameter of a function whose
\* default is the literal True or False gets `bool`, and no rule naming the
\* parameter is applied nor any import requested.
C6_BoolParam ==
    (LeftParam /\ OfFunction /\ state.bool_param
        /\ last.original.annotation = NoneVal
        /\ last.original.default \in {Name("True"), Name("False")}) =>
        /\ last.updated.annotation = AnnName("bool")
        /\ last.imports = <<>>

\* C6 witness: a parameter `x=False`, which rules of both lists name, has
\* been annotated `bool`.
C6_Witness ==
    /\ LeftParam /\ OfFunction /\ state.bool_param
    /\ last.original = ParamNode("x", NoneVal, Name("False"))
    /\ \E i \in DOMAIN state.annotate_optionals :
           state.annotate_optionals[i].name = "x"
    /\ \E i \in DOMAIN state.annotate_named_params :
           state.annotate_named_params[i].name = "x"
    /\ last.updated.annotation = AnnName("bool")

\* The rule of `rules` that is first, in the order of the list, among those
\* that name the parameter just left: rule i is that rule.
IsFirstRule(rules, i) ==
    /\ rules[i].name = last.original.name
    /\ \A j \in 1..(i - 1) : rules[j].name # last.original.name

\* C7: an unannotated parameter of a function with default None gets
\* Optional[TYPE] of the first Optional rule that names it, with the imports
\* (module, TYPE) and (typing, Optional) requested; no named-param rule is
\* applied to it, and without such an Optional rule it is left as it was.
C7_OptionalRule ==
    (LeftParam /\ OfFunction /\ last.original.annotation = NoneVal
        /\ last.original.default = Name("None")) =>
        LET rules == state.annotate_optionals
        IN  /\ \A i \in DOMAIN rules :
                   IsFirstRule(rules, i) =>
                       /\ last.updated.annotation =
                              AnnOptional(rules[i].type_name)
                       /\ last.imports =
                              << <<rules[i].module, rules[i].type_name>>,
                                 <<"typing", "Optional">> >>
            /\ (\A i \in DOMAIN rules : ~IsFirstRule(rules, i)) => Unchanged

\* C7 witness: `x=None` has been annotated Optional[A] by the first of two
\* Optional rules naming x, which comes after a rule naming another
\* parameter, while a named-param rule names x too.
C7_Witness ==
    /\ LeftParam /\ OfFunction
    /\ last.original = ParamNode("x", NoneVal, Name("None"))
    /\ state.annotate_optionals[1].name # "x"
    /\ state.annotate_optionals[2] = RuleA
    /\ state.annotate_optionals[3].name = "x"
    /\ state.annotate_named_params[2].name = "x"
    /\ last.updated.annotation = AnnOptional("A")

\* C8: an unannotated parameter of a function with no default gets the bare
\* TYPE of the first named-param rule that names it, with the one import
\* (module, TYPE) requested; a parameter with a default other than None that
\* the bool rule does not annotate is left as it was.
C8_NamedParamRule ==
    (LeftParam /\ OfFunction /\ last.original.annotation = NoneVal) =>
        LET rules == state.annotate_named_params
        IN  /\ last.original.default = NoneVal =>
                /\ \A i \in DOMAIN rules :
                       IsFirstRule(rules, i) =>
                           /\ last.updated.annotation =
                                  AnnName(rules[i].type_name)
                           /\ last.imports =
                                  << <<rules[i].module, rules[i].type_name>> >>
                /\ (\A i \in DOMAIN rules : ~IsFirstRule(rules, i))
                       => Unchanged
            /\ (/\ last.original.default \notin {NoneVal, Name("None")}
                /\ ~(state.bool_param /\ last.original.default
                                            \in {Name("True"), Name("False")}))
               => Unchanged

\* C8 witness: a parameter `x` with no default has been annotated B by the
\* first of two named-param rules naming x.
C8_Witness ==
    /\ LeftParam /\ OfFunction
    /\ last.original = ParamNode("x", NoneVal, NoneVal)
    /\ state.annotate_named_params[1].name # "x"
    /\ state.annotate_named_params[2] = RuleB
    /\ state.annotate_named_params[3].name = "x"
    /\ last.updated.annotation = AnnName("B")
    /\ last.imports = << <<"m2", "B">> >>

\* C8 second witness: a parameter named by a rule and whose default is a
\* lambda has been left as it was.
C8_WitnessDefault ==
    /\ LeftParam /\ OfFunction
    /\ last.original = ParamNode("x", NoneVal, LambdaExpr)
    /\ Unchanged

\* C9 as stated: with annotate_magics on, a function without a return
\* annotation whose name is in the simple-magic table gets the table's type,
\* for every body and every setting of the other toggles.
C9_SimpleMagicAlways ==
    (LeftFunctionDef /\ state.annotate_magics
        /\ last.original.returns = NoneVal
        /\ last.original.name = "__len__") =>
        last.updated.returns = AnnName("int")

\* C9 as amended: such a function gets the table's type unless rule (a)
\* applies to it (none_return is on and its scope holds no raise, no yield
\* and no return with a value), and then it gets `-> None`.
C9_SimpleMagicUnlessNone ==
    (LeftFunctionDef /\ state.annotate_magics
        /\ last.original.returns = NoneVal
        /\ last.original.name = "__len__") =>
        last.updated.returns =
            IF RuleNone THEN AnnName("None") ELSE AnnName("int")

\* C9 witness: with none_return on, __len__ whose body returns a value has
\* been annotated `-> int`.
C9_Witness ==
    /\ LeftFunctionDef /\ state.annotate_magics /\ state.none_return
    /\ last.original = FunctionDefNode("__len__", NoneVal)
    /\ last.own_return
    /\ last.updated.returns = AnnName("int")

\* The set of the imports requested so far: the list's distinct entries.
Requested == {imports[k] : k \in DOMAIN imports}

\* C10: when rule (c) decides, the import (typing, Iterator) is requested in
\* that step (it is the entry the step appends to the list) and the function
\* is returned annotated Iterator; however many such requests the walk has
\* made, the set of the imports requested holds (typing, Iterator), as one
\* element.
C10_ImpreciseMagicImport ==
    (LeftFunctionDef /\ last.original.returns = NoneVal
        /\ ~RuleNone /\ ~RuleSimple /\ RuleImprecise) =>
        /\ last.imports = << <<"typing", "Iterator">> >>
        /\ last.updated.returns = AnnName("Iterator")
        /\ imports # <<>>
        /\ imports[Len(imports)] = <<"typing", "Iterator">>
        /\ Cardinality({p \in Requested : p = <<"typing", "Iterator">>}) = 1

\* C10 witness: rule (c) has decided for __iter__.
C10_Witness ==
    /\ LeftFunctionDef /\ ~RuleNone /\ RuleImprecise
    /\ last.original = FunctionDefNode("__iter__", NoneVal)
    /\ last.updated.returns = AnnName("Iterator")
    /\ <<"typing", "Iterator">> \in Requested

\* C10 second witness: rule (c) has decided for a second method of the
\* walk; the list holds the request twice, the set once.
C10_WitnessTwice ==
    /\ LeftFunctionDef /\ ~RuleNone /\ RuleImprecise
    /\ last.updated.returns = AnnName("Iterator")
    /\ imports = << <<"typing", "Iterator">>, <<"typing", "Iterator">> >>
    /\ Requested = {<<"typing", "Iterator">>}

\* C14: in_lambda is true exactly while the walk is inside at least one
\* lambda; leaving a lambda nested in another one leaves it true.
C14_LambdaFlagTracksNesting == state.in_lambda = (LambdaDepth > 0)

\* The frames of `stack` that are scopes (the module and the function
\* definitions entered and not left), outermost first.
ScopeFrames ==
    SelectSeq(stack, LAMBDA fr : fr.kind \in {"Module", "FunctionDef"})

\* C15: the flags kept for each open function are true exactly for the
\* kinds of event met inside it and outside the function definitions nested
\* in it; these are the flags popped when the function is left.
C15_FlagsOfInnermostFunction ==
    /\ Len(state.seen_return_statement) = Len(ScopeFrames)
    /\ Len(state.seen_raise_statement) = Len(ScopeFrames)
    /\ Len(state.seen_yield) = Len(ScopeFrames)
    /\ \A k \in DOMAIN ScopeFrames :
          /\ state.seen_return_statement[k] = ScopeFrames[k].own_return
          /\ state.seen_raise_statement[k] = ScopeFrames[k].own_raise
          /\ state.seen_yield[k] = ScopeFrames[k].own_yield

\* C15 witness: a nested function that held a raise has been left, and the
\* function around it, which holds none, still has its raise flag false.
C15_Witness ==
    /\ LeftFunctionDef /\ last.own_raise
    /\ FunctionDepth = 1
    /\ ~Top.own_raise
    /\ state.seen_raise_statement = <<FALSE, FALSE>>

\* C15 second witness: a function that held a raise before a nested
\* function was entered still has its flag set once the nested one is left.
C15_WitnessKept ==
    /\ LeftFunctionDef /\ ~last.own_raise
    /\ FunctionDepth = 1
    /\ Top.own_raise
    /\ state.seen_raise_statement = <<FALSE, TRUE>>

\* C16: the three lists have the same length, one more than the number of
\* function definitions entered and not left: the list is never empty, and
\* its length is 1 again when the walk is back at the module.
C16_StackDiscipline ==
    /\ Len(state.seen_return_statement) = FunctionDepth + 1
    /\ Len(state.seen_raise_statement) = FunctionDepth + 1
    /\ Len(state.seen_yield) = FunctionDepth + 1
    /\ (Len(stack) = 1 => Len(state.seen_yield) = 1)

\* C16 witness: the walk is back at the module after it has left a
\* function definition nested in another, with lists of length 1.
C16_Witness ==
    /\ LeftFunctionDef /\ Len(stack) = 1 /\ nodes >= 2
    /\ last.original.type = "FunctionDef"
    /\ Len(state.seen_return_statement) = 1
    /\ Len(state.seen_raise_statement) = 1
    /\ Len(state.seen_yield) = 1

\* C17: entering or leaving a lambda leaves the three lists as they were; a
\* yield met inside a lambda sets the flag of the innermost enclosing
\* function, and a function that holds such a yield is not annotated by
\* rule (a).
C17_LambdaHasNoFrame ==
    [][/\ last'.event \in {"visit_Lambda", "leave_Lambda"} =>
            /\ state'.seen_return_statement = state.seen_return_statement
            /\ state'.seen_raise_statement = state.seen_raise_statement
            /\ state'.seen_yield = state.seen_yield
       /\ (last'.event = "visit_Yield" /\ last'.owner = "Lambda") =>
            /\ Len(state'.seen_yield) = FunctionDepth + 1
            /\ state'.seen_yield = ListSetLast(state.seen_yield, TRUE)
       /\ (last'.event = "leave_FunctionDef" /\ last'.own_yield
             /\ last'.original.returns = NoneVal) =>
            last'.updated.returns # AnnName("None")]_vars

\* C17 witness: with none_return on, a yield inside a lambda inside a
\* function has been recorded on the function's frame.
C17_Witness ==
    /\ last.event = "visit_Yield" /\ last.owner = "Lambda"
    /\ state.none_return
    /\ FunctionDepth = 1 /\ LambdaDepth = 1
    /\ state.seen_yield = <<FALSE, TRUE>>

\* C18: a leave handler returns the node it was given, changed at most in
\* an annotation slot that was empty: the returns of a function that had
\* none, the annotation of a parameter that had none.
C18_OnlyEmptyAnnotationSlots ==
    /\ LeftParam =>
          /\ last.updated = [last.original EXCEPT
                                !.annotation = last.updated.annotation]
          /\ last.original.annotation # NoneVal =>
                 last.updated.annotation = last.original.annotation
    /\ LeftFunctionDef =>
          /\ last.updated = [last.original EXCEPT
                                !.returns = last.updated.returns]
          /\ last.original.returns # NoneVal =>
                 last.updated.returns = last.original.returns
    /\ last.event = "leave_Lambda" => last.updated = last.original

\* C18 witness: a parameter that has an annotation and that the bool rule
\* and a rule of each list would match has been returned as it was.
C18_Witness ==
    /\ LeftParam /\ OfFunction /\ ~state.in_lambda
    /\ last.original.name = "x"
    /\ last.original.annotation = ExistingAnnotation
    /\ last.original.default = Name("None")
    /\ last.updated = last.original

\* The annotation that asks for the imports `reqs`, if any does.
Names(annotation, reqs) ==
    \/ /\ Len(reqs) = 1
       /\ annotation = AnnName(reqs[1][2])
    \/ /\ Len(reqs) = 2
       /\ annotation = AnnOptional(reqs[1][2])
       /\ reqs[2] = <<"typing", "Optional">>

\* C19: imports are requested only in a leave step that attaches an
\* annotation naming them; none is requested for a parameter of a lambda,
\* for a function or parameter that has an annotation, for a parameter
\* annotated bool, or for a function annotated by rule (a) or (b).
C19_NoSpuriousImports ==
    /\ last.imports # <<>> =>
          \/ LeftParam /\ last.original.annotation = NoneVal
                /\ Names(last.updated.annotation, last.imports)
          \/ LeftFunctionDef /\ last.original.returns = NoneVal
                /\ Names(last.updated.returns, last.imports)
    /\ (LeftParam /\ OfLambda) => last.imports = <<>>
    /\ (LeftParam /\ last.updated.annotation = AnnName("bool")) =>
          last.imports = <<>>
    /\ (LeftFunctionDef /\ last.original.returns = NoneVal
          /\ (RuleNone \/ RuleSimple)) => last.imports = <<>>

\* C20: when leave_Param runs for a parameter of a function definition,
\* in_lambda is false, also after a lambda in a default, so the parameter is
\* returned as the bool, Optional and named-param policies decide.
C20_FunctionParamsNotSuppressed ==
    (LeftParam /\ OfFunction) =>
        /\ ~state.in_lambda
        /\ (last.original.annotation = NoneVal /\ last.original.name = "x"
              /\ last.original.default \in {NoneVal, Name("None")}) =>
               last.updated.annotation # NoneVal

\* C20 witness: a parameter of a function whose default is a lambda has
\* been left with in_lambda false.
C20_Witness ==
    /\ LeftParam /\ OfFunction
    /\ last.original.default = LambdaExpr
    /\ ~state.in_lambda

\* The call of make has been made.
Called == call.result # NotCalled

\* Number of colons of a string; whether it has a dot after its first colon.
Colons(chars) == Cardinality({i \in 1..Len(chars) : chars[i] = ":"})
DotAfterColon(chars) ==
    /\ find(chars, ":") # 0
    /\ \E j \in (find(chars, ":") + 1)..Len(chars) : chars[j] = "."

\* The text before the first colon, between it and the last dot, and after
\* the last dot.
Expected(chars) ==
    LET colon == find(chars, ":")
        dot == rfind(chars, ".")
    IN  NamedParam(Join(SubSeq(chars, 1, colon - 1)),
                   Join(SubSeq(chars, colon + 1, dot - 1)),
                   Join(SubSeq(chars, dot + 1, Len(chars))))

\* C11 as stated: for every input with a colon and a dot after it, make
\* returns name = the text before the first colon, type_name = the text
\* after the last dot, module = what is in between.
C11_MakeSplitsOnFirstColon ==
    (Called /\ DotAfterColon(call.input)) =>
        call.result = Returned(Expected(call.input))

\* C11 amended: for every input with exactly one colon and a dot after it,
\* make returns name = the text before the colon, type_name = the text
\* after the last dot, module = what is in between; an input with more
\* than one colon makes it raise.
C11_MakeSplitsOnOnlyColon ==
    /\ (Called /\ Colons(call.input) = 1 /\ DotAfterColon(call.input)) =>
           call.result = Returned(Expected(call.input))
    /\ (Called /\ Colons(call.input) > 1) => call.result.raised

\* C11 witness: make has returned a module with a dot in it, for a string
\* with a dot before the colon too.
C11_Witness ==
    /\ Called
    /\ call.input = <<"a", ".", "b", ":", "b", ".", "a", ".">>
           \/ call.input = <<"a", ":", "b", ".", "a", ".", "b">>
    /\ call.result.raised = FALSE
    /\ call.result.value = NamedParam("a", "b.a", "b")

\* A rule string with no colon, or with no dot after its colon.
Malformed(chars) == ~DotAfterColon(chars)
MalformedArguments ==
    \/ \E k \in DOMAIN ctor.annotate_optional :
          Malformed(ctor.annotate_optional[k])
    \/ \E k \in DOMAIN ctor.annotate_named_param :
          Malformed(ctor.annotate_named_param[k])

\* C12: with a malformed rule string in either list, at any position,
\* __init__ raises: the command is never constructed, no visit or leave
\* event happens, no node is returned and no import is requested.
C12_MalformedRuleFailsConstruction ==
    MalformedArguments =>
        /\ ctor.pc \in {"new", "raised"}
        /\ state = Unset
        /\ last.event = "init"
        /\ nodes = 0
        /\ stack = <<Frame("Module", "body", ModuleNode)>>
        /\ imports = <<>>

\* C12 witness: __init__ has raised for a malformed string in second
\* place of annotate_named_param, the strings before it being well formed.
C12_Witness ==
    /\ ctor.pc = "raised"
    /\ \A k \in DOMAIN ctor.annotate_optional :
          ~Malformed(ctor.annotate_optional[k])
    /\ Len(ctor.annotate_named_param) = 2
    /\ ~Malformed(ctor.annotate_named_param[1])
    /\ Malformed(ctor.annotate_named_param[2])

\* C12 second witness: a command made from well-formed strings walks.
C12_WitnessReady ==
    /\ ctor.pc = "ready"
    /\ ctor.annotate_optional = <<StringA>>
    /\ state.annotate_optionals = <<RuleA>>
    /\ LeftParam /\ last.updated.annotation = AnnOptional("A")

\* C13: a command that is not running keeps its state: what the heap holds
\* at the addresses of its lists, with the lists of the running command
\* written, is what it had when it stopped, so it goes on as if alone.
C13_InstancesIsolated ==
    \A k \in DOMAIN parked :
        /\ parked[k].running.id # running.id
        /\ Load(Store(heap, running, state), parked[k].running,
                parked[k].state) = parked[k].state

\* C13 witness: both commands are in the middle of their walks, one inside
\* a function definition and the other inside a lambda.
C13_Witness ==
    /\ parked # <<>>
    /\ running.id = 2
    /\ last.event = "visit_FunctionDef"
    /\ Len(state.seen_yield) = 2 /\ ~state.in_lambda
    /\ parked[1].last.event = "visit_Lambda"
    /\ parked[1].state.in_lambda
    /\ Len(parked[1].state.seen_yield) = 1

====
